---- MODULE Spec2Model ----
(***************************************************************************)
(* Model of the tarot card domain of src/main.rs: the enumerations Suit,   *)
(* Rank and Trump, the sum type Figure, the wrapper Card with its points,  *)
(* the comparisons (hand-written for Suit, derived for the others) and the *)
(* Deck aggregate (Deck::new, Deck::points) over a HashSet<Card>.          *)
(***************************************************************************)
EXTENDS Integers, Sequences, FiniteSets, TLC

(***************************************************************************)
(* Bounds of the model.                                                    *)
(***************************************************************************)
\* hash seeds 0..MaxSeed the RandomState of a HashSet may draw
MaxSeed == 12
\* number of slots of the modelled hash table (decides the iteration order)
TableSize == 79
\* number of HashSet::insert calls of the insertion scenario
MaxInserts == 4

(***************************************************************************)
(* std::cmp::Ordering and Option<Ordering>.                                *)
(***************************************************************************)
Less == "Less"
Equal == "Equal"
Greater == "Greater"
None == <<>>
Some(x) == <<x>>
Ordering == {Less, Equal, Greater}

\* comparison of two discriminants (isize), as the derived impls do
DiscrCmp(x, y) == IF x < y THEN Less ELSE IF x = y THEN Equal ELSE Greater

\* position of variant v in the declaration e, counted from 0
Discriminant(e, v) == (CHOOSE i \in 1..Len(e) : e[i] = v) - 1

Range(s) == {s[i] : i \in 1..Len(s)}

(***************************************************************************)
(* The enumerations, in declaration order (the order of EnumIter).         *)
(***************************************************************************)
Suit == <<"Spade", "Heart", "Diamond", "Club">>

\* the thirteen ranks of a 52-card deck: no Knight
Rank_NoKnight ==
  <<"Ace", "Two", "Three", "Four", "Five", "Six", "Seven", "Eight", "Nine",
    "Ten", "Jack", "Queen", "King">>

Rank ==
  <<"Ace", "Two", "Three", "Four", "Five", "Six", "Seven", "Eight", "Nine",
    "Ten", "Jack", "Knight", "Queen", "King">>

Trump ==
  <<"One", "Two", "Three", "Four", "Five", "Six", "Seven", "Eight", "Nine",
    "Ten", "Eleven", "Twelve", "Thirteen", "Fourteen", "Fifteen", "Sixteen",
    "Seventeen", "Eighteen", "Nineteen", "Twenty", "TwentyOne">>

(***************************************************************************)
(* enum Figure { Fool, Base(Suit, Rank), Trump(Trump) } and struct Card.   *)
(***************************************************************************)
Figure_Fool == [tag |-> "Fool"]
Figure_Base(suit, rank) == [tag |-> "Base", suit |-> suit, rank |-> rank]
Figure_Trump(trump) == [tag |-> "Trump", trump |-> trump]

Figure ==
  {Figure_Fool}
    \cup {Figure_Base(s, r) : s \in Range(Suit), r \in Range(Rank)}
    \cup {Figure_Trump(t) : t \in Range(Trump)}

Card(figure) == <<figure>>

CardValues == {Card(f) : f \in Figure}

\* declaration order of the variants of Figure
FigureVariants == <<"Fool", "Base", "Trump">>

(***************************************************************************)
(* impl PartialOrd for Suit: Equal on the same suit, Greater otherwise.    *)
(***************************************************************************)
Suit_partial_cmp_Derived(self, other) ==
  Some(DiscrCmp(Discriminant(Suit, self), Discriminant(Suit, other)))

Suit_partial_cmp_Partial(self, other) ==
  IF self = other THEN Some(Equal) ELSE None

Suit_partial_cmp(self, other) ==
  IF self = other THEN Some(Equal) ELSE Some(Greater)

(***************************************************************************)
(* #[derive(PartialOrd)] for Rank and Trump: order of the discriminants.   *)
(***************************************************************************)
Rank_partial_cmp_FacesTie(self, other) ==
  LET d(v) == IF Discriminant(Rank, v) > 10 THEN 10 ELSE Discriminant(Rank, v)
  IN  Some(DiscrCmp(d(self), d(other)))

Rank_partial_cmp(self, other) ==
  Some(DiscrCmp(Discriminant(Rank, self), Discriminant(Rank, other)))

Trump_partial_cmp(self, other) ==
  Some(DiscrCmp(Discriminant(Trump, self), Discriminant(Trump, other)))

(***************************************************************************)
(* #[derive(PartialOrd)] for Figure: variants by discriminant, the fields  *)
(* of a common variant lexicographically.                                  *)
(***************************************************************************)
Figure_partial_cmp_RankFirst(self, other) ==
  IF self.tag = "Base" /\ other.tag = "Base"
  THEN LET cmp == Rank_partial_cmp(self.rank, other.rank)
       IN  IF cmp = Some(Equal)
           THEN Suit_partial_cmp(self.suit, other.suit)
           ELSE cmp
  ELSE IF self.tag = "Trump" /\ other.tag = "Trump"
  THEN Trump_partial_cmp(self.trump, other.trump)
  ELSE Some(DiscrCmp(Discriminant(FigureVariants, self.tag),
                     Discriminant(FigureVariants, other.tag)))

Figure_partial_cmp_TrumpFirst(self, other) ==
  LET variants == <<"Fool", "Trump", "Base">>
  IN  IF self.tag = "Base" /\ other.tag = "Base"
      THEN LET cmp == Suit_partial_cmp(self.suit, other.suit)
           IN  IF cmp = Some(Equal)
               THEN Rank_partial_cmp(self.rank, other.rank)
               ELSE cmp
      ELSE IF self.tag = "Trump" /\ other.tag = "Trump"
      THEN Trump_partial_cmp(self.trump, other.trump)
      ELSE Some(DiscrCmp(Discriminant(variants, self.tag),
                         Discriminant(variants, other.tag)))

Figure_partial_cmp_FoolLast(self, other) ==
  LET variants == <<"Base", "Trump", "Fool">>
  IN  IF self.tag = "Base" /\ other.tag = "Base"
      THEN LET cmp == Suit_partial_cmp(self.suit, other.suit)
           IN  IF cmp = Some(Equal)
               THEN Rank_partial_cmp(self.rank, other.rank)
               ELSE cmp
      ELSE IF self.tag = "Trump" /\ other.tag = "Trump"
      THEN Trump_partial_cmp(self.trump, other.trump)
      ELSE Some(DiscrCmp(Discriminant(variants, self.tag),
                         Discriminant(variants, other.tag)))

Figure_partial_cmp(self, other) ==
  IF self.tag = "Base" /\ other.tag = "Base"
  THEN LET cmp == Suit_partial_cmp(self.suit, other.suit)
       IN  IF cmp = Some(Equal)
           THEN Rank_partial_cmp(self.rank, other.rank)
           ELSE cmp
  ELSE IF self.tag = "Trump" /\ other.tag = "Trump"
  THEN Trump_partial_cmp(self.trump, other.trump)
  ELSE Some(DiscrCmp(Discriminant(FigureVariants, self.tag),
                     Discriminant(FigureVariants, other.tag)))

\* #[derive(PartialOrd)] for the tuple struct Card: its single field
Card_partial_cmp(self, other) == Figure_partial_cmp(self[1], other[1])

(***************************************************************************)
(* #[derive(PartialEq)] for Figure and Card: same variant, equal fields.   *)
(***************************************************************************)
Figure_eq(self, other) ==
  /\ self.tag = other.tag
  /\ self.tag = "Base" => self.suit = other.suit /\ self.rank = other.rank
  /\ self.tag = "Trump" => self.trump = other.trump

Card_eq(self, other) == Figure_eq(self[1], other[1])

(***************************************************************************)
(* Card::points: the match of lines 208-220, arms tried in order.          *)
(***************************************************************************)
Card_points_KnightAsJack(self) ==
  IF self = Card(Figure_Fool) THEN 45
  ELSE IF self = Card(Figure_Trump("One")) THEN 45
  ELSE IF self = Card(Figure_Trump("TwentyOne")) THEN 45
  ELSE IF self[1].tag = "Base"
  THEN CASE self[1].rank = "Jack" -> 15
         [] self[1].rank = "Knight" -> 15
         [] self[1].rank = "Queen" -> 35
         [] self[1].rank = "King" -> 45
         [] OTHER -> 5
  ELSE 5

Card_points_TrumpFlat(self) ==
  IF self = Card(Figure_Fool) THEN 45
  ELSE IF self[1].tag = "Base"
  THEN CASE self[1].rank = "Jack" -> 15
         [] self[1].rank = "Knight" -> 25
         [] self[1].rank = "Queen" -> 35
         [] self[1].rank = "King" -> 45
         [] OTHER -> 5
  ELSE 5

Card_points(self) ==
  IF self = Card(Figure_Fool) THEN 45
  ELSE IF self = Card(Figure_Trump("One")) THEN 45
  ELSE IF self = Card(Figure_Trump("TwentyOne")) THEN 45
  ELSE IF self[1].tag = "Base"
  THEN CASE self[1].rank = "Jack" -> 15
         [] self[1].rank = "Knight" -> 25
         [] self[1].rank = "Queen" -> 35
         [] self[1].rank = "King" -> 45
         [] OTHER -> 5
  ELSE 5

(***************************************************************************)
(* std HashSet<Card>, as far as the program uses it: a table of slots, each *)
(* a chain of cards.  The slot of a card is decided by Card's derived Hash *)
(* and the seed of the set's RandomState, membership within the slot by    *)
(* Card's derived Eq, the iteration order by the walk of the table.        *)
(***************************************************************************)
\* #[derive(Hash)]: the discriminant, then the fields; injective on Figure
Card_hash(card) ==
  LET f == card[1]
  IN  CASE f.tag = "Fool" -> 0
        [] f.tag = "Base" ->
             1 + Discriminant(Suit, f.suit) * Len(Rank)
               + Discriminant(Rank, f.rank)
        [] f.tag = "Trump" ->
             1 + Len(Suit) * Len(Rank) + Discriminant(Trump, f.trump)

HashSet_new(seed) ==
  [seed |-> seed, items |-> 0, table |-> [s \in 0..(TableSize - 1) |-> <<>>]]

\* slot of a card in the table of a set seeded with seed
HashSet_slot(card, seed) == (Card_hash(card) * (seed + 1) + seed) % TableSize

HashSet_contains(self, value) ==
  LET chain == self.table[HashSet_slot(value, self.seed)]
  IN  \E i \in 1..Len(chain) : Card_eq(chain[i], value)

\* a Vec::push in place of the insert: no look-up of the value
HashSet_insert_Push(self, value) ==
  [self EXCEPT !.table[HashSet_slot(value, self.seed)] = Append(@, value),
               !.items = @ + 1]

HashSet_insert(self, value) ==
  IF HashSet_contains(self, value)
  THEN self
  ELSE [self EXCEPT !.table[HashSet_slot(value, self.seed)] = Append(@, value),
                    !.items = @ + 1]

HashSet_len(self) == self.items

\* the first slot from s on that holds a card, TableSize if there is none
HashSet_next_slot(self, s) ==
  IF \E t \in s..(TableSize - 1) : self.table[t] # <<>>
  THEN CHOOSE t \in s..(TableSize - 1) :
         /\ self.table[t] # <<>>
         /\ \A u \in s..(t - 1) : self.table[u] = <<>>
  ELSE TableSize

\* set.iter(): a cursor <<slot, index>> on the first card of the table
HashSet_iter(self) == <<HashSet_next_slot(self, 0), 1>>

\* the cursor after the card at cursor it: the table is walked slot by slot,
\* each slot along its chain
HashSet_iter_next(self, it) ==
  IF it[2] < Len(self.table[it[1]])
  THEN <<it[1], it[2] + 1>>
  ELSE <<HashSet_next_slot(self, it[1] + 1), 1>>

\* width of the accumulator of Deck::points
U16 == 65536

(***************************************************************************)
(* State.                                                                  *)
(***************************************************************************)
VARIABLES
  pc,       \* position of the running function
  set,      \* Deck.set
  suit,     \* cursor of the loop over Suit::iter(), from 1
  rank,     \* cursor of the loop over Rank::iter(), from 1
  trump,    \* cursor of the loop over Trump::iter(), from 1
  res,      \* accumulator of Deck::points
  iter,     \* cursor of self.set.iter(): <<slot, index in the slot>>
  ty,       \* type of the operands of a comparison
  a, b, c,  \* operands
  ord,      \* results of partial_cmp on the operands
  pts,      \* result of Card::points on operand a
  cards,    \* the HashSet of the insertion scenario
  log       \* the cards handed to cards.insert, in call order

vars ==
  <<pc, set, suit, rank, trump, res, iter, ty, a, b, c, ord, pts,
    cards, log>>

deckVars == <<set, suit, rank, trump, res, iter>>
cmpVars == <<ty, a, b, c, ord, pts>>
setVars == <<cards, log>>

DeckIdle ==
  /\ set = HashSet_new(0) /\ suit = 1 /\ rank = 1 /\ trump = 1
  /\ res = 0 /\ iter = <<0, 1>>
\* no comparison made yet
Uncompared == [ab |-> None, ba |-> None, bc |-> None, ac |-> None, aa |-> None]

CmpIdle ==
  /\ ty = "none" /\ a = "none" /\ b = "none" /\ c = "none"
  /\ ord = Uncompared /\ pts = 0
SetIdle == cards = HashSet_new(0) /\ log = <<>>

(***************************************************************************)
(* Deck::new followed by Deck::points.                                     *)
(***************************************************************************)
Init == pc = "new" /\ DeckIdle /\ CmpIdle /\ SetIdle

\* let mut deck = Self { set: HashSet::new() };
Deck_new_Create ==
  /\ pc = "new"
  /\ \E k \in 0..MaxSeed : set' = HashSet_new(k)
  /\ suit' = 1 /\ rank' = 1
  /\ pc' = "base"
  /\ UNCHANGED <<trump, res, iter>>
  /\ UNCHANGED cmpVars /\ UNCHANGED setVars

\* one pass of the body of the nested loops over Suit::iter(), Rank::iter()
Deck_new_InsertBase ==
  /\ pc = "base"
  /\ set' = HashSet_insert(set, Card(Figure_Base(Suit[suit], Rank[rank])))
  /\ IF rank < Len(Rank)
     THEN rank' = rank + 1 /\ UNCHANGED <<suit, trump, pc>>
     ELSE IF suit < Len(Suit)
     THEN rank' = 1 /\ suit' = suit + 1 /\ UNCHANGED <<trump, pc>>
     ELSE trump' = 1 /\ pc' = "trump" /\ UNCHANGED <<suit, rank>>
  /\ UNCHANGED <<res, iter>>
  /\ UNCHANGED cmpVars /\ UNCHANGED setVars

\* one pass of the body of the loop over Trump::iter()
Deck_new_InsertTrump ==
  /\ pc = "trump"
  /\ set' = HashSet_insert(set, Card(Figure_Trump(Trump[trump])))
  /\ IF trump < Len(Trump)
     THEN trump' = trump + 1 /\ UNCHANGED pc
     ELSE pc' = "fool" /\ UNCHANGED trump
  /\ UNCHANGED <<suit, rank, res, iter>>
  /\ UNCHANGED cmpVars /\ UNCHANGED setVars

\* deck.set.insert(Card(Figure::Fool)); deck
Deck_new_InsertFool ==
  /\ pc = "fool"
  /\ set' = HashSet_insert(set, Card(Figure_Fool))
  /\ pc' = "built"
  /\ UNCHANGED <<suit, rank, trump, res, iter>>
  /\ UNCHANGED cmpVars /\ UNCHANGED setVars

\* let mut res: u16 = 0; and the start of self.set.iter()
Deck_points_Begin ==
  /\ pc = "built"
  /\ res' = 0
  /\ iter' = HashSet_iter(set)
  /\ pc' = "points"
  /\ UNCHANGED <<set, suit, rank, trump>>
  /\ UNCHANGED cmpVars /\ UNCHANGED setVars

\* res += card.points() as u16; for the next card of the iteration
Deck_points_Add ==
  /\ pc = "points"
  /\ iter[1] < TableSize
  /\ LET card == set.table[iter[1]][iter[2]]
     IN  res' = (res + Card_points(card)) % U16
  /\ iter' = HashSet_iter_next(set, iter)
  /\ UNCHANGED <<pc, set, suit, rank, trump>>
  /\ UNCHANGED cmpVars /\ UNCHANGED setVars

\* the iteration is exhausted: res is returned
Deck_points_Return ==
  /\ pc = "points"
  /\ iter[1] >= TableSize
  /\ pc' = "done"
  /\ UNCHANGED deckVars
  /\ UNCHANGED cmpVars /\ UNCHANGED setVars

Next ==
  \/ Deck_new_Create
  \/ Deck_new_InsertBase
  \/ Deck_new_InsertTrump
  \/ Deck_new_InsertFool
  \/ Deck_points_Begin
  \/ Deck_points_Add
  \/ Deck_points_Return

Spec == Init /\ [][Next]_vars

\* the functions are straight-line loops of one thread: each step is taken
FairSpec == Init /\ [][Next]_vars /\ WF_vars(Next)

(***************************************************************************)
(* The comparisons and Card::points as functions of their operands: the    *)
(* operands are drawn from the whole of a type, then the function is       *)
(* applied.  Rank and Trump take three operands, Suit and Card two (the    *)
(* third repeats the first).                                               *)
(***************************************************************************)
InitCmp ==
  /\ pc = "operands"
  /\ \/ /\ ty = "Suit"
        /\ a \in Range(Suit) /\ b \in Range(Suit) /\ c = a
     \/ /\ ty = "Rank"
        /\ a \in Range(Rank) /\ b \in Range(Rank) /\ c \in Range(Rank)
     \/ /\ ty = "Trump"
        /\ a \in Range(Trump) /\ b \in Range(Trump) /\ c \in Range(Trump)
     \/ /\ ty = "Card"
        /\ a \in CardValues /\ b \in CardValues /\ c = a
  /\ ord = Uncompared /\ pts = 0
  /\ DeckIdle /\ SetIdle

Suit_Compare ==
  /\ pc = "operands" /\ ty = "Suit"
  /\ ord' = [ab |-> Suit_partial_cmp(a, b), ba |-> Suit_partial_cmp(b, a), bc |-> Suit_partial_cmp(b, c),
             ac |-> Suit_partial_cmp(a, c), aa |-> Suit_partial_cmp(a, a)]
  /\ pc' = "done"
  /\ UNCHANGED <<ty, a, b, c, pts>>
  /\ UNCHANGED deckVars /\ UNCHANGED setVars

Rank_Compare ==
  /\ pc = "operands" /\ ty = "Rank"
  /\ ord' = [ab |-> Rank_partial_cmp(a, b), ba |-> Rank_partial_cmp(b, a), bc |-> Rank_partial_cmp(b, c),
             ac |-> Rank_partial_cmp(a, c), aa |-> Rank_partial_cmp(a, a)]
  /\ pc' = "done"
  /\ UNCHANGED <<ty, a, b, c, pts>>
  /\ UNCHANGED deckVars /\ UNCHANGED setVars

Trump_Compare ==
  /\ pc = "operands" /\ ty = "Trump"
  /\ ord' = [ab |-> Trump_partial_cmp(a, b), ba |-> Trump_partial_cmp(b, a), bc |-> Trump_partial_cmp(b, c),
             ac |-> Trump_partial_cmp(a, c), aa |-> Trump_partial_cmp(a, a)]
  /\ pc' = "done"
  /\ UNCHANGED <<ty, a, b, c, pts>>
  /\ UNCHANGED deckVars /\ UNCHANGED setVars

Card_Compare ==
  /\ pc = "operands" /\ ty = "Card"
  /\ ord' = [ab |-> Card_partial_cmp(a, b), ba |-> Card_partial_cmp(b, a), bc |-> Card_partial_cmp(b, c),
             ac |-> Card_partial_cmp(a, c), aa |-> Card_partial_cmp(a, a)]
  /\ pc' = "compared"
  /\ UNCHANGED <<ty, a, b, c, pts>>
  /\ UNCHANGED deckVars /\ UNCHANGED setVars

Card_Points ==
  /\ pc = "compared" /\ ty = "Card"
  /\ pts' = Card_points(a)
  /\ pc' = "done"
  /\ UNCHANGED <<ty, a, b, c, ord>>
  /\ UNCHANGED deckVars /\ UNCHANGED setVars

NextCmp ==
  \/ Suit_Compare
  \/ Rank_Compare
  \/ Trump_Compare
  \/ Card_Compare
  \/ Card_Points

CmpSpec == InitCmp /\ [][NextCmp]_vars

(***************************************************************************)
(* Insertions into a HashSet<Card>, as tests::test_card_unicity_in_hashmap *)
(* makes them, over the cards the tests build.                             *)
(***************************************************************************)
TestCards ==
  {Card(Figure_Base("Spade", "Ace")), Card(Figure_Base("Spade", "Two")),
   Card(Figure_Base("Diamond", "Ace")), Card(Figure_Trump("One")),
   Card(Figure_Trump("TwentyOne")), Card(Figure_Fool)}

InitSet ==
  /\ pc = "test"
  /\ \E k \in 0..MaxSeed : cards = HashSet_new(k)
  /\ log = <<>>
  /\ DeckIdle /\ CmpIdle

\* cards.insert(card);
Cards_insert ==
  /\ pc = "test"
  /\ Len(log) < MaxInserts
  /\ \E card \in TestCards :
       /\ cards' = HashSet_insert(cards, card)
       /\ log' = Append(log, card)
  /\ UNCHANGED pc
  /\ UNCHANGED deckVars /\ UNCHANGED cmpVars

NextSet == Cards_insert

SetSpec == InitSet /\ [][NextSet]_vars

(***************************************************************************)
(* Properties.                                                             *)
(***************************************************************************)
\* position of v in the declared sequence e, and the order it induces
Position(e, v) == CHOOSE i \in 1..Len(e) : e[i] = v
Declared(e, x, y) ==
  IF Position(e, x) < Position(e, y) THEN Some(Less)
  ELSE IF Position(e, x) > Position(e, y) THEN Some(Greater)
  ELSE Some(Equal)

Built == pc \in {"built", "points", "done"}
\* the cards held by a HashSet
Elements(self) ==
  UNION {{self.table[s][i] : i \in 1..Len(self.table[s])} :
           s \in DOMAIN self.table}
Compared(t) == ty = t /\ pc \in {"compared", "done"}
IsBase(x) == x[1].tag = "Base"
IsTrump(x) == x[1].tag = "Trump"
IsFool(x) == x[1].tag = "Fool"

\* C1: Deck::new always terminates, and the set it returns holds exactly the
\* 78 distinct cards: the 56 Base cards of Suit x Rank, the 21 Trump cards
\* and the Fool, none missing and no other present.
C1_DeckNewBuildsAll78 ==
  /\ [](Built =>
          /\ HashSet_len(set) = 78
          /\ Cardinality(Elements(set)) = 78
          /\ {x \in Elements(set) : IsBase(x)} =
               {Card(Figure_Base(s, r)) : s \in Range(Suit), r \in Range(Rank)}
          /\ Cardinality({x \in Elements(set) : IsBase(x)}) = 56
          /\ {x \in Elements(set) : IsTrump(x)} =
               {Card(Figure_Trump(t)) : t \in Range(Trump)}
          /\ Cardinality({x \in Elements(set) : IsTrump(x)}) = 21
          /\ {x \in Elements(set) : IsFool(x)} = {Card(Figure_Fool)}
          /\ Elements(set) \subseteq CardValues)
  /\ <>Built

C1_Witness == pc = "built" /\ HashSet_len(set) = 78 /\ set.seed = 1

\* C2: Deck::points on a freshly built deck returns 910, whatever the order
\* in which the set is iterated.
C2_DeckPointsIs910 == pc = "done" => res = 910

C2_Witness == pc = "done" /\ res = 910 /\ set.seed = MaxSeed

\* C3: Card::points is the table Fool 45, Trump One 45, Trump TwentyOne 45,
\* any other Trump 5, Base Jack 15, Knight 25, Queen 35, King 45 (whatever
\* the suit), any other Base rank 5.
PointsTable(f) ==
  CASE f.tag = "Fool" -> 45
    [] f.tag = "Trump" -> IF f.trump \in {"One", "TwentyOne"} THEN 45 ELSE 5
    [] f.tag = "Base" ->
         CASE f.rank = "Jack" -> 15
           [] f.rank = "Knight" -> 25
           [] f.rank = "Queen" -> 35
           [] f.rank = "King" -> 45
           [] OTHER -> 5

C3_PointsTable == (ty = "Card" /\ pc = "done") => pts = PointsTable(a[1])

C3_Witness ==
  /\ ty = "Card" /\ pc = "done"
  /\ a = Card(Figure_Base("Heart", "Knight")) /\ pts = 25

\* C4: the Suit comparison returns Equal iff the suits are the same and
\* Greater otherwise, never Less: two different suits are each Greater than
\* the other.
C4_SuitEqualOrGreater ==
  Compared("Suit") =>
    /\ ord.ab = Some(Equal) <=> a = b
    /\ a # b => ord.ab = Some(Greater) /\ ord.ba = Some(Greater)
    /\ ord.ab # Some(Less) /\ ord.ba # Some(Less)
    /\ ord.aa = Some(Equal)

C4_Witness ==
  /\ Compared("Suit") /\ a = "Heart" /\ b = "Spade"
  /\ ord.ab = Some(Greater) /\ ord.ba = Some(Greater)

\* C5: any Trump compared against any Base card is Greater, and any Base
\* card against any Trump is Less, whatever the strength, suit and rank.
C5_TrumpOutranksBase ==
  (Compared("Card") /\ IsTrump(a) /\ IsBase(b)) =>
    ord.ab = Some(Greater) /\ ord.ba = Some(Less)

C5_Witness ==
  /\ Compared("Card")
  /\ a = Card(Figure_Trump("One")) /\ b = Card(Figure_Base("Spade", "King"))
  /\ ord.ab = Some(Greater)

\* C6: two Base cards of different suits compare Greater for the left
\* operand whatever the ranks (each is Greater than the other); two Base
\* cards of one suit compare as their ranks do.
C6_BaseAgainstBase ==
  (Compared("Card") /\ IsBase(a) /\ IsBase(b)) =>
    IF a[1].suit # b[1].suit
    THEN ord.ab = Some(Greater) /\ ord.ba = Some(Greater)
    ELSE /\ ord.ab = Declared(Rank, a[1].rank, b[1].rank)
         /\ ord.ba = Declared(Rank, b[1].rank, a[1].rank)

C6_Witness ==
  /\ Compared("Card")
  /\ a = Card(Figure_Base("Spade", "Ace"))
  /\ b = Card(Figure_Base("Diamond", "King"))
  /\ ord.ab = Some(Greater) /\ ord.ba = Some(Greater)

\* C7: the comparisons of Rank and of Trump are strict total orders that
\* agree with the declaration order (irreflexive, antisymmetric, transitive,
\* any two distinct values ordered), and two Trump cards compare as their
\* strengths do.
C7_RankTrumpStrictTotalOrder ==
  /\ \A e \in {"Rank", "Trump"} :
       Compared(e) =>
         LET decl == IF e = "Rank" THEN Rank ELSE Trump
         IN  /\ ord.ab = Declared(decl, a, b)
             /\ ord.ba = Declared(decl, b, a)
             /\ ord.aa # Some(Less)
             /\ ~(ord.ab = Some(Less) /\ ord.ba = Some(Less))
             /\ (ord.ab = Some(Less) /\ ord.bc = Some(Less))
                  => ord.ac = Some(Less)
             /\ a # b => (ord.ab = Some(Less) \/ ord.ba = Some(Less))
  /\ (Compared("Card") /\ IsTrump(a) /\ IsTrump(b)) =>
       ord.ab = Declared(Trump, a[1].trump, b[1].trump)

C7_Witness ==
  /\ Compared("Rank") /\ a = "Ten" /\ b = "Knight" /\ c = "King"
  /\ ord.ab = Some(Less) /\ ord.bc = Some(Less) /\ ord.ac = Some(Less)

\* C8: the Fool compares Less against every Base and every Trump card, each
\* of them compares Greater against the Fool, and Fool against Fool is
\* Equal.
C8_FoolBelowAll ==
  (Compared("Card") /\ IsFool(a)) =>
    IF IsFool(b)
    THEN ord.ab = Some(Equal)
    ELSE ord.ab = Some(Less) /\ ord.ba = Some(Greater)

C8_Witness ==
  /\ Compared("Card")
  /\ a = Card(Figure_Fool) /\ b = Card(Figure_Base("Spade", "Ace"))
  /\ ord.ab = Some(Less) /\ ord.ba = Some(Greater)

\* C9: inserting a card whose Figure is already in the set is a no-op: the
\* size of the set is the number of distinct Figures inserted, and inserting
\* a present card leaves the set unchanged.
Inserted(l) == {l[i][1] : i \in 1..Len(l)}

C9_DuplicateInsertIsNoOp ==
  /\ [](/\ HashSet_len(cards) = Cardinality(Inserted(log))
        /\ {x[1] : x \in Elements(cards)} = Inserted(log))
  /\ [][(Len(log') = Len(log) + 1 /\ log'[Len(log')][1] \in Inserted(log))
          => cards' = cards]_vars

C9_Witness ==
  /\ log = <<Card(Figure_Base("Spade", "Ace")), Card(Figure_Trump("One")),
             Card(Figure_Fool), Card(Figure_Base("Spade", "Ace"))>>
  /\ HashSet_len(cards) = 3

\* C10: the comparison of two Cards always returns a definite Less, Equal or
\* Greater, and it returns Equal iff the two Cards wrap the same Figure.
C10_CardCompareTotal ==
  Compared("Card") =>
    /\ ord.ab \in {Some(o) : o \in Ordering}
    /\ ord.ba \in {Some(o) : o \in Ordering}
    /\ ord.ab = Some(Equal) <=> a[1] = b[1]

C10_Witness ==
  /\ Compared("Card")
  /\ a = Card(Figure_Base("Spade", "Ace"))
  /\ b = Card(Figure_Base("Heart", "Ace"))
  /\ ord.ab = Some(Greater)

====
